---- MODULE Spec2Model ----
(***************************************************************************)
(* Model of ImportBodyComposition2GarminConnect.py: the class              *)
(* ImportBodyComposition (CSV normalisation into the BodyComposition data  *)
(* frame, import into the Garmin Connect account) and the __main__ script  *)
(* that drives it.                                                         *)
(*                                                                         *)
(* Python values are records tagged by their type:                         *)
(*   None        [t |-> "None"]                                            *)
(*   float       [t |-> "float", num |-> n, scale |-> s]   (n / 10^s)      *)
(*   float nan   [t |-> "nan"]                                             *)
(*   str         [t |-> "str", s |-> <<characters>>]                       *)
(*   Timestamp   [t |-> "Timestamp", date |-> <<y, m, d>>, hour |-> h]     *)
(* A character is a string of length one.                                  *)
(***************************************************************************)
EXTENDS Integers, Sequences, FiniteSets, TLC

(***************************************************************************)
(* Bounds of the model.                                                    *)
(***************************************************************************)
\* timestamps of the CSV rows are numbered 0..MaxTs (two per calendar day)
MaxTs == 2
\* rows of one CSV file
MaxRows == 2
\* CSV files of the weight files folder processed in one run
MaxFiles == 3
\* weigh-ins the Garmin account already holds for one date
MaxRemote == 1

(***************************************************************************)
(* Python built-ins                                                        *)
(***************************************************************************)
None == [t |-> "None"]
NaN == [t |-> "nan"]
Str(s) == [t |-> "str", s |-> s]

Digits == {"0", "1", "2", "3", "4", "5", "6", "7", "8", "9"}

DigitVal(c) ==
    CASE c = "0" -> 0 [] c = "1" -> 1 [] c = "2" -> 2 [] c = "3" -> 3
      [] c = "4" -> 4 [] c = "5" -> 5 [] c = "6" -> 6 [] c = "7" -> 7
      [] c = "8" -> 8 [] c = "9" -> 9

DigitChar(n) ==
    CASE n = 0 -> "0" [] n = 1 -> "1" [] n = 2 -> "2" [] n = 3 -> "3"
      [] n = 4 -> "4" [] n = 5 -> "5" [] n = 6 -> "6" [] n = 7 -> "7"
      [] n = 8 -> "8" [] n = 9 -> "9"

\* ord(c) of the characters that are compared
Ord(c) ==
    CASE c = "-" -> 45 [] c = "." -> 46 [] c = "A" -> 65 [] c = "B" -> 66
      [] OTHER -> 48 + DigitVal(c)

\* a < b for two Python strings: by code point, a proper prefix is smaller
RECURSIVE StrLess(_, _)
StrLess(a, b) ==
    IF b = <<>> THEN FALSE
    ELSE IF a = <<>> THEN TRUE
    ELSE IF Head(a) # Head(b) THEN Ord(Head(a)) < Ord(Head(b))
    ELSE StrLess(Tail(a), Tail(b))

\* a >= b for two Python strings
StrGE(a, b) == ~StrLess(a, b)

\* bool(v): the truth value Python gives a value in `if v:`
Truthy(v) ==
    CASE v.t = "None" -> FALSE
      [] v.t = "float" -> v.num # 0
      [] v.t = "nan" -> TRUE
      [] v.t = "str" -> v.s # <<>>
      [] v.t = "Timestamp" -> TRUE

RECURSIVE CountDots(_)
CountDots(s) ==
    IF s = <<>> THEN 0
    ELSE (IF Head(s) = "." THEN 1 ELSE 0) + CountDots(Tail(s))

RECURSIVE DigitsValue(_, _)
\* the number written by the digits of s, its dots left out, after acc
DigitsValue(s, acc) ==
    IF s = <<>> THEN acc
    ELSE IF Head(s) = "." THEN DigitsValue(Tail(s), acc)
    ELSE DigitsValue(Tail(s), 10 * acc + DigitVal(Head(s)))

RECURSIVE DotIndex(_)
\* index of the first "." of s, Len(s) + 1 when there is none
DotIndex(s) ==
    IF s = <<>> THEN 1
    ELSE IF Head(s) = "." THEN 1 ELSE 1 + DotIndex(Tail(s))

RECURSIVE Normal(_, _)
\* equal floats have one representation: no trailing zero in the fraction
Normal(num, scale) ==
    IF scale > 0 /\ num % 10 = 0 THEN Normal(num \div 10, scale - 1)
    ELSE [t |-> "float", num |-> num, scale |-> scale]

\* float(s) of a string: its float, or ValueError.  The strings of the model
\* hold digits, dots and letters; a sign, an exponent, "inf" and "nan" do not
\* occur in them.
FloatOfStr(s) ==
    IF /\ s # <<>>
       /\ \A k \in 1..Len(s) : s[k] \in Digits \cup {"."}
       /\ CountDots(s) <= 1
       /\ CountDots(s) < Len(s)
    THEN Normal(DigitsValue(s, 0),
                IF CountDots(s) = 0 THEN 0 ELSE Len(s) - DotIndex(s))
    ELSE [t |-> "ValueError"]

\* float(v): of a float the float itself, of a str its parse, TypeError of
\* a Timestamp
Float(v) ==
    CASE v.t = "float" -> v
      [] v.t = "nan" -> v
      [] v.t = "str" -> FloatOfStr(v.s)
      [] OTHER -> [t |-> "TypeError"]

\* str(v) as re.search receives it
StrOf(v) ==
    CASE v.t = "str" -> v.s
      [] v.t = "nan" -> <<"n", "a", "n">>
      [] OTHER -> <<>>

(***************************************************************************)
(* datetime.date                                                           *)
(***************************************************************************)
DaysInMonth(y, m) ==
    IF m \in {4, 6, 9, 11} THEN 30
    ELSE IF m = 2 THEN (IF y % 4 = 0 /\ (y % 100 # 0 \/ y % 400 = 0) THEN 29 ELSE 28)
    ELSE 31

NextDay(d) ==
    IF d[3] < DaysInMonth(d[1], d[2]) THEN <<d[1], d[2], d[3] + 1>>
    ELSE IF d[2] < 12 THEN <<d[1], d[2] + 1, 1>>
    ELSE <<d[1] + 1, 1, 1>>

RECURSIVE AddDays(_, _)
AddDays(d, n) == IF n = 0 THEN d ELSE AddDays(NextDay(d), n - 1)

\* d1 < d2 for two dates
DateLess(d1, d2) ==
    \/ d1[1] < d2[1]
    \/ d1[1] = d2[1] /\ d1[2] < d2[2]
    \/ d1[1] = d2[1] /\ d1[2] = d2[2] /\ d1[3] < d2[3]

\* t1 < t2 for two Timestamps
TimestampLess(t1, t2) ==
    \/ DateLess(t1.date, t2.date)
    \/ t1.date = t2.date /\ t1.hour < t2.hour

\* "%02d" % n and "%04d" % n
Pad2(n) == <<DigitChar((n \div 10) % 10), DigitChar(n % 10)>>
Pad4(n) == Pad2(n \div 100) \o Pad2(n % 100)


\* date.isoformat(): YYYY-MM-DD
isoformat(d) == Pad4(d[1]) \o <<"-">> \o Pad2(d[2]) \o <<"-">> \o Pad2(d[3])

(***************************************************************************)
(* The settings document (garminconnect.json) and the CSV input            *)
(***************************************************************************)
\* columns of the BodyComposition data frame (initBodyCompositionDF)
Columns ==
    {"timestamp", "weight", "percent_fat", "percent_hydration",
     "visceral_fat_mass", "bone_mass", "muscle_mass", "basal_met",
     "active_met", "physique_rating", "metabolic_age", "visceral_fat_rating",
     "bmi"}

\* data.Mapping of the settings document, with the given rule for weight
Mapping(weightType, weightMandatory) ==
    [timestamp   |-> [name |-> "Time", type |-> "datetime", mandatory |-> "True"],
     weight      |-> [name |-> "Weight", type |-> weightType,
                      mandatory |-> weightMandatory],
     percent_fat |-> [name |-> "Fat", type |-> "percent", mandatory |-> "False"],
     basal_met   |-> [name |-> "BMR", type |-> "kcal", mandatory |-> "False"],
     bmi         |-> [name |-> "BMI"],
     userName    |-> [name |-> "User", type |-> "text", mandatory |-> "False"]]

Mappings ==
    {Mapping("weight", "True"), Mapping("weight", "False"), Mapping("value", "True")}

\* the calendar dates and the Timestamps of the CSV rows: two readings a day
\* from 2024-09-30 on
DateOf(i) == AddDays(<<2024, 9, 30>>, i \div 2)
TimestampOf(i) == [t |-> "Timestamp", date |-> DateOf(i), hour |-> 8 + 12 * (i % 2)]
Dates == {DateOf(i) : i \in 0..MaxTs}

\* the values data.lastDate takes in the settings document
LastDates == {None} \cup {Str(isoformat(d)) : d \in Dates}

\* settings documents; data.lastDate may be missing
SettingsWith(filters, sorts, calls, deletes, mappings) ==
    {[data |-> [filterByUser |-> f, user |-> Str(<<"A">>), sortData |-> s,
                callAPI |-> c, deleteOldData |-> d, dateTimeFormat |-> "%Y-%m-%d %H:%M",
                Mapping |-> m, lastDate |-> l]] :
        f \in filters, s \in sorts, c \in calls, d \in deletes, m \in mappings,
        l \in LastDates \ {None}}
    \cup
    {[data |-> [filterByUser |-> f, user |-> Str(<<"A">>), sortData |-> s,
                callAPI |-> c, deleteOldData |-> d, dateTimeFormat |-> "%Y-%m-%d %H:%M",
                Mapping |-> m]] :
        f \in filters, s \in sorts, c \in calls, d \in deletes, m \in mappings}

Flags == {"True", "False"}

\* the settings the normaliser is checked under: every filter, sort order
\* and mapping; the import is switched off
FileSettings == SettingsWith(Flags, Flags, {"False"}, {"False"}, Mappings)

\* the settings a whole run is checked under: every import flag
RunSettings == SettingsWith({"False"}, Flags, Flags, Flags, {Mapping("weight", "True")})

\* a row of InputData after the Time column went through pd.to_datetime:
\* the reading numbered i, with cell w in the Weight column (NaN is an empty
\* cell) and user u
InputRow(i, w, u) ==
    [Time |-> TimestampOf(i), Weight |-> w, User |-> Str(<<u>>),
     Fat |-> Str(<<"2", "3", ".", "4", "%">>),
     BMR |-> Str(<<"1", "6", "5", "0", " ", "k", "c", "a", "l">>),
     BMI |-> Str(<<"2", "2", ".", "5", "0">>)]

Kg705 == Str(<<"7", "0", ".", "5", "k", "g">>)
Kg0 == Str(<<"0", "k", "g">>)
Plain71 == Str(<<"7", "1", ".", "0", "0">>)

\* the rows of the files of a whole run: a reading of user A at every
\* timestamp, and one with an empty Weight cell
RunRows == {InputRow(i, Kg705, "A") : i \in 0..MaxTs} \cup {InputRow(0, NaN, "A")}

\* the rows of the files the normaliser is checked on: a reading of user A at
\* every timestamp and, at the second timestamp, a zero weight, an empty
\* Weight cell and a reading of user B
InputRows ==
    {InputRow(i, Kg705, "A") : i \in 0..MaxTs}
    \cup {InputRow(1, Kg0, "A"), InputRow(1, NaN, "A"), InputRow(1, Plain71, "B")}

RECURSIVE SeqsUpTo(_, _)
SeqsUpTo(S, n) ==
    IF n = 0 THEN {<<>>}
    ELSE LET shorter == SeqsUpTo(S, n - 1)
         IN  shorter \cup {Append(q, x) : q \in {p \in shorter : Len(p) = n - 1}, x \in S}

\* the CSV files: up to MaxRows rows each
RunFiles == SeqsUpTo(RunRows, MaxRows)
InputFiles == SeqsUpTo(InputRows, MaxRows)

VARIABLES
    settingsFile,     \* the settings document on disk
    jsonProperties,   \* self.jsonProperties
    lastDate,         \* self.lastDate
    BodyComposition,  \* self.BodyComposition: <<[idx |-> label, row |-> values]>>
    pc,               \* position of the __main__ script
    nFiles,           \* files of the folder processed so far
    insertedItems,    \* insertedItems of the last processWeightFile
    firstSeen,        \* history: per timestamp, the first row that passed the checks
    skipped,          \* history: why the last file lost rows
    lastFile,         \* history: InputData of the last processWeightFile
    sameFile,         \* history: the file before the last one had the same content
    position,         \* loadDataOnGarminConnect: position of iterrows in the frame
    dates,            \* loadDataOnGarminConnect: dates
    dateWeightList,   \* loadDataOnGarminConnect: weigh-ins still to be deleted
    garmin,           \* the Garmin Connect account: its weigh-ins
    calls,            \* history: the calls of self.client made by this run
    writes            \* history: updatePropertiesFile calls of this run

loadVars == <<position, dates, dateWeightList, garmin, calls, writes>>
fileVars == <<nFiles, insertedItems, firstSeen, skipped, lastFile, sameFile>>

vars ==
    <<settingsFile, jsonProperties, lastDate, BodyComposition, pc, nFiles,
      insertedItems, firstSeen, skipped, lastFile, sameFile, position, dates,
      dateWeightList, garmin, calls, writes>>

\* getPropertyValue(section, property, default)
getPropertyValue(section, property, default) ==
    IF section \in DOMAIN jsonProperties /\ property \in DOMAIN jsonProperties[section]
    THEN jsonProperties[section][property]
    ELSE default

\* self.mapInfo (loadColumnsMapping copies data.Mapping)
mapInfo == jsonProperties["data"]["Mapping"]

(***************************************************************************)
(* Mapping engine                                                          *)
(***************************************************************************)
RECURSIVE DigitRun(_, _)
\* number of digits of s from index p on
DigitRun(s, p) ==
    IF p <= Len(s) /\ s[p] \in Digits THEN 1 + DigitRun(s, p + 1) ELSE 0

RECURSIVE NumericRun(_, _)
\* number of digits and dots of s from index p on
NumericRun(s, p) ==
    IF p <= Len(s) /\ s[p] \in Digits \cup {"."} THEN 1 + NumericRun(s, p + 1) ELSE 0

\* re.search(r'^([\d.]+)', s).group(1), <<>> without a match
SearchWeight(s) == SubSeq(s, 1, NumericRun(s, 1))

\* length of the match of \d+\.?\d* at index p, 0 without a match
KcalMatch(s, p) ==
    LET n == DigitRun(s, p)
    IN  IF n = 0 THEN 0
        ELSE IF p + n <= Len(s) /\ s[p + n] = "." THEN n + 1 + DigitRun(s, p + n + 1)
        ELSE n

\* length of the match of \d+\.\d+ at index p, 0 without a match
PercentMatch(s, p) ==
    LET n == DigitRun(s, p)
    IN  IF n > 0 /\ p + n <= Len(s) /\ s[p + n] = "." /\ DigitRun(s, p + n + 1) > 0
        THEN n + 1 + DigitRun(s, p + n + 1)
        ELSE 0

\* re.search(r'(\d+\.?\d*)', s).group(1): the leftmost match
SearchKcal(s) ==
    LET starts == {p \in 1..Len(s) : KcalMatch(s, p) > 0}
    IN  IF starts = {} THEN <<>>
        ELSE LET p == CHOOSE q \in starts : \A r \in starts : q <= r
             IN  SubSeq(s, p, p + KcalMatch(s, p) - 1)

\* re.search(r'(\d+\.\d+)', s).group(1): the leftmost match
SearchPercent(s) ==
    LET starts == {p \in 1..Len(s) : PercentMatch(s, p) > 0}
    IN  IF starts = {} THEN <<>>
        ELSE LET p == CHOOSE q \in starts : \A r \in starts : q <= r
             IN  SubSeq(s, p, p + PercentMatch(s, p) - 1)

\* an exception inside getMappingColumnValue leaves value = None
NoneIfRaised(v) == IF v.t \in {"ValueError", "TypeError"} THEN None ELSE v

\* getMappingColumnValue(row, columnName), for self.mapInfo = map
getMappingColumnValue(map, row, columnName) ==
    IF /\ columnName \in DOMAIN map
       /\ "name" \in DOMAIN map[columnName]
       /\ map[columnName]["name"] \in DOMAIN row
    THEN LET rowValue == row[map[columnName]["name"]]
             colType == IF "type" \in DOMAIN map[columnName]
                        THEN map[columnName]["type"] ELSE "value"
             token == CASE colType = "weight" -> SearchWeight(StrOf(rowValue))
                        [] colType = "kcal" -> SearchKcal(StrOf(rowValue))
                        [] colType = "percent" -> SearchPercent(StrOf(rowValue))
                        [] OTHER -> <<>>
         IN  IF colType \in {"weight", "kcal", "percent"}
             THEN IF token # <<>> THEN NoneIfRaised(FloatOfStr(token)) ELSE None
             ELSE IF colType = "value" THEN NoneIfRaised(Float(rowValue))
             ELSE rowValue
    ELSE None

\* getMappingRowValues(row), for self.mapInfo = map
getMappingRowValues(map, row) ==
    [key \in Columns |-> getMappingColumnValue(map, row, key)]

\* getMappingRowValues and the userName of line 285, of every row of the
\* model under every mapping
MappedRows ==
    [m \in Mappings |-> [r \in InputRows \cup RunRows |->
        [rowOutput |-> getMappingRowValues(m, r),
         userName |-> getMappingColumnValue(m, r, "userName")]]]

\* validMandatoryValues: the loop breaks at the first key that fails, so it
\* returns the conjunction over the keys
validMandatoryValues(row) ==
    \A key \in DOMAIN row :
        LET hasValue == Truthy(row[key])
            isMandatory == /\ key \in DOMAIN mapInfo
                           /\ "mandatory" \in DOMAIN mapInfo[key]
                           /\ mapInfo[key]["mandatory"] = "True"
        IN  hasValue \/ ~isMandatory

(***************************************************************************)
(* CSV normaliser: processWeightFile                                       *)
(***************************************************************************)
\* InputData.sort_values(by = cols): quicksort is not stable, so rows with
\* equal keys come out in any order
RowLess(a, b, byUser) ==
    IF byUser /\ a["User"] # b["User"] THEN StrLess(a["User"].s, b["User"].s)
    ELSE TimestampLess(a["Time"], b["Time"])

InputOrders(rows, sortData, filterByUser) ==
    IF ~sortData THEN {rows}
    ELSE {[k \in 1..Len(rows) |-> rows[p[k]]] :
            p \in {q \in Permutations(1..Len(rows)) :
                     \A i, j \in 1..Len(rows) :
                        i < j => ~RowLess(rows[q[j]], rows[q[i]], filterByUser)}}

\* self.BodyComposition.loc[self.BodyComposition['timestamp'] == timestamp]
findRecord(bc, timestamp) ==
    {k \in 1..Len(bc) : bc[k].row["timestamp"] = timestamp}

\* self.BodyComposition.loc[label] = rowOutput: the row labelled `label` is
\* overwritten when the index holds the label, and appended otherwise
LocSet(bc, label, rowOutput) ==
    IF \E k \in 1..Len(bc) : bc[k].idx = label
    THEN [k \in 1..Len(bc) |->
            IF bc[k].idx = label THEN [idx |-> label, row |-> rowOutput] ELSE bc[k]]
    ELSE Append(bc, [idx |-> label, row |-> rowOutput])

RECURSIVE InsertSorted(_, _)
InsertSorted(sorted, r) ==
    IF sorted = <<>> THEN <<r>>
    ELSE IF TimestampLess(r.row["timestamp"], Head(sorted).row["timestamp"])
         THEN <<r>> \o sorted
         ELSE <<Head(sorted)>> \o InsertSorted(Tail(sorted), r)

RECURSIVE SortFrom(_, _)
SortFrom(bc, sorted) ==
    IF bc = <<>> THEN sorted ELSE SortFrom(Tail(bc), InsertSorted(sorted, Head(bc)))

\* the mutant of sort_values: the data frame stays in insertion order
sort_valuesNone(bc) == bc

\* self.BodyComposition.sort_values(by = ['timestamp']): rows keep their
\* labels; the timestamps of the frame are distinct, so the order is unique
sort_values(bc) == SortFrom(bc, <<>>)

\* the user filter of line 285
PassesUserFilter(rowInput) ==
    LET filterByUser == getPropertyValue("data", "filterByUser", "False") = "True"
        user == getPropertyValue("data", "user", None)
    IN  ~filterByUser \/ MappedRows[mapInfo][rowInput].userName = user

\* the mutant of PassesWatermark: the watermark is not looked at
PassesWatermarkAlways(rowOutput) == TRUE

\* the watermark test of line 288, on ISO date strings
PassesWatermark(rowOutput) ==
    LET dateISOformat == isoformat(rowOutput["timestamp"].date)
    IN  ~Truthy(lastDate) \/ StrGE(dateISOformat, lastDate.s)

\* the mutant of IsNewTimestamp: only the last row of the frame is compared
IsNewTimestampLast(bc, rowOutput) ==
    bc = <<>> \/ bc[Len(bc)].row["timestamp"] # rowOutput["timestamp"]

\* the mutant of IsNewTimestamp: the frame is not searched
IsNewTimestampAlways(bc, rowOutput) == TRUE

\* findRecord.empty of line 290
IsNewTimestamp(bc, rowOutput) == findRecord(bc, rowOutput["timestamp"]) = {}

\* the mutant of NewLabel: the rows are labelled by the counter of the file
NewLabelInserted(bc, inserted) == inserted

\* the label of line 291: len(self.BodyComposition)
NewLabel(bc, inserted) == Len(bc)

RECURSIVE iterrows(_, _, _)
\* the loop of lines 284-292 over the rows of InputData
iterrows(bc, rows, inserted) ==
    IF rows = <<>> THEN [bc |-> bc, insertedItems |-> inserted]
    ELSE LET rowInput == Head(rows)
             rowOutput == MappedRows[mapInfo][rowInput].rowOutput
         IN  IF /\ PassesUserFilter(rowInput)
                /\ PassesWatermark(rowOutput)
                /\ validMandatoryValues(rowOutput)
                /\ IsNewTimestamp(bc, rowOutput)
             THEN iterrows(LocSet(bc, NewLabel(bc, inserted), rowOutput), Tail(rows),
                           inserted + 1)
             ELSE iterrows(bc, Tail(rows), inserted)

RECURSIVE FirstRows(_, _)
\* history: the rows that pass the user filter, the watermark and the
\* mandatory check, one per timestamp, the first in processing order
FirstRows(seen, rows) ==
    IF rows = <<>> THEN seen
    ELSE LET rowOutput == MappedRows[mapInfo][Head(rows)].rowOutput
         IN  IF /\ PassesUserFilter(Head(rows))
                /\ ~Truthy(lastDate) \/ StrGE(isoformat(rowOutput["timestamp"].date), lastDate.s)
                /\ \A key \in Columns :
                      (key \in DOMAIN mapInfo /\ "mandatory" \in DOMAIN mapInfo[key]
                         /\ mapInfo[key]["mandatory"] = "True") => Truthy(rowOutput[key])
                /\ \A r \in seen : r["timestamp"] # rowOutput["timestamp"]
             THEN FirstRows(seen \cup {rowOutput}, Tail(rows))
             ELSE FirstRows(seen, Tail(rows))

\* history: the checks of lines 285-290 that alone made the loop skip a
\* row; "conflict" when the record that made the row a duplicate has other
\* values
SkipReason(bc, rowInput) ==
    LET rowOutput == MappedRows[mapInfo][rowInput].rowOutput
        user == PassesUserFilter(rowInput)
        watermark == PassesWatermark(rowOutput)
        mandatory == validMandatoryValues(rowOutput)
        new == IsNewTimestamp(bc, rowOutput)
    IN  IF ~user /\ watermark /\ mandatory /\ new THEN {"user"}
        ELSE IF user /\ ~watermark /\ mandatory /\ new THEN {"watermark"}
        ELSE IF user /\ watermark /\ ~mandatory /\ new THEN {"mandatory"}
        ELSE IF user /\ watermark /\ mandatory /\ ~new
             THEN IF \E k \in 1..Len(bc) :
                        /\ bc[k].row["timestamp"] = rowOutput["timestamp"]
                        /\ bc[k].row # rowOutput
                  THEN {"duplicate", "conflict"}
                  ELSE {"duplicate"}
        ELSE {}

RECURSIVE SkipReasons(_, _)
SkipReasons(bc, rows) ==
    IF rows = <<>> THEN {}
    ELSE SkipReason(bc, Head(rows))
            \cup SkipReasons(iterrows(bc, <<Head(rows)>>, 0).bc, Tail(rows))

\* the histories of the normaliser, for the rows in processing order
Noted(rows) ==
    /\ firstSeen' = FirstRows(firstSeen, rows)
    /\ skipped' = SkipReasons(BodyComposition, rows)

NotNoted == UNCHANGED <<firstSeen, skipped>>

\* processWeightFile(weightFile, fileName), for the InputData read from the
\* file; `noted` tells whether the histories of the normaliser are kept
processWeightFile(InputData, noted) ==
    /\ pc = "files"
    /\ nFiles < MaxFiles
    /\ \E rows \in InputOrders(InputData,
                               getPropertyValue("data", "sortData", "False") = "True",
                               getPropertyValue("data", "filterByUser", "False") = "True") :
          LET done == iterrows(BodyComposition, rows, 0)
          IN  /\ BodyComposition' = sort_values(done.bc)
              /\ insertedItems' = done.insertedItems
              /\ IF noted THEN Noted(rows) ELSE NotNoted
    /\ nFiles' = nFiles + 1
    /\ UNCHANGED <<settingsFile, jsonProperties, lastDate, pc>>
    /\ UNCHANGED loadVars

\* line 317: a file of the folder is processed
LoadFile ==
    \E f \in RunFiles : processWeightFile(f, FALSE) /\ UNCHANGED <<lastFile, sameFile>>

\* the same, with the histories of the normaliser
LoadFileNoted ==
    \E f \in InputFiles : processWeightFile(f, TRUE) /\ UNCHANGED <<lastFile, sameFile>>

\* a file is processed, and remembered or not, while none is remembered
LoadFileTracked ==
    /\ lastFile = <<>>
    /\ \E f \in InputFiles, tracked \in BOOLEAN :
          /\ tracked => f # <<>>
          /\ processWeightFile(f, FALSE)
          /\ lastFile' = IF tracked THEN f ELSE <<>>
    /\ UNCHANGED sameFile

\* the next file of the folder has the content of the file just processed
LoadFileAgain ==
    /\ lastFile # <<>>
    /\ ~sameFile
    /\ processWeightFile(lastFile, FALSE)
    /\ sameFile' = TRUE
    /\ UNCHANGED lastFile

(***************************************************************************)
(* The Garmin Connect account (self.client)                                *)
(***************************************************************************)
\* the account before the run looked at it: which weigh-ins it holds for a
\* date is settled when the date is first fetched
UnknownAccount == [weighIns |-> {}, known |-> {}]

\* the weigh-ins the account may hold for a date before the run
OldWeighIns(date) ==
    {{[date |-> date, samplePk |-> k, fresh |-> FALSE] : k \in 1..n} : n \in 0..MaxRemote}

RECURSIVE BySamplePk(_)
BySamplePk(S) ==
    IF S = {} THEN <<>>
    ELSE LET w == CHOOSE x \in S : \A y \in S : x.samplePk <= y.samplePk
         IN  <<w>> \o BySamplePk(S \ {w})

\* get_daily_weigh_ins(date)['dateWeightList'] of an account
DailyWeighIns(account, date) == BySamplePk({w \in account.weighIns : w.date = date})

Call(op, date, samplePk, fresh, ok) ==
    [op |-> op, date |-> date, samplePk |-> samplePk, fresh |-> fresh, ok |-> ok]

\* an exception of a collaborator ends the script
Raise == pc' = "aborted"

(***************************************************************************)
(* __main__                                                                *)
(***************************************************************************)
\* bc.downloadAttachments() returns
downloadAttachments ==
    /\ pc = "download"
    /\ pc' = "files"
    /\ UNCHANGED <<settingsFile, jsonProperties, lastDate, BodyComposition>>
    /\ UNCHANGED fileVars
    /\ UNCHANGED loadVars

\* bc.downloadAttachments() raises (the IMAP server fails)
downloadAttachmentsFails ==
    /\ pc = "download"
    /\ Raise
    /\ UNCHANGED <<settingsFile, jsonProperties, lastDate, BodyComposition>>
    /\ UNCHANGED fileVars
    /\ UNCHANGED loadVars

\* loadDataFromWeightFilesFolder returns: the glob is exhausted; line 383
loadDataFromWeightFilesFolder ==
    /\ pc = "files"
    /\ pc' = IF Len(BodyComposition) > 0 THEN "connect" ELSE "done"
    /\ nFiles' = 0
    /\ insertedItems' = 0
    /\ UNCHANGED <<settingsFile, jsonProperties, lastDate, BodyComposition, firstSeen,
                   skipped, lastFile, sameFile>>
    /\ UNCHANGED loadVars

\* connectGarmin logs in
connectGarmin ==
    /\ pc = "connect"
    /\ pc' = "load"
    /\ UNCHANGED <<settingsFile, jsonProperties, lastDate, BodyComposition>>
    /\ UNCHANGED fileVars
    /\ UNCHANGED loadVars

\* connectGarmin raises: the login fails
connectGarminFails ==
    /\ pc = "connect"
    /\ Raise
    /\ UNCHANGED <<settingsFile, jsonProperties, lastDate, BodyComposition>>
    /\ UNCHANGED fileVars
    /\ UNCHANGED loadVars

\* the mutant of loadDataOnGarminConnect: callAPI is not looked at
loadDataOnGarminConnectAlways ==
    /\ pc = "load"
    /\ pc' = "row"
    /\ position' = 1
    /\ dates' = <<>>
    /\ UNCHANGED <<settingsFile, jsonProperties, lastDate, BodyComposition,
                   dateWeightList, garmin, calls, writes>>
    /\ UNCHANGED fileVars

\* loadDataOnGarminConnect, lines 320-328: the callAPI test
loadDataOnGarminConnect ==
    /\ pc = "load"
    /\ LET callAPI == getPropertyValue("data", "callAPI", "False") = "True"
       IN  pc' = IF callAPI THEN "row" ELSE "update"
    /\ position' = 1
    /\ dates' = <<>>
    /\ UNCHANGED <<settingsFile, jsonProperties, lastDate, BodyComposition,
                   dateWeightList, garmin, calls, writes>>
    /\ UNCHANGED fileVars

\* jsonProperties['data']['lastDate'] = value
SetLastDate(json, value) ==
    [json EXCEPT !["data"] =
        [key \in DOMAIN json["data"] \cup {"lastDate"} |->
            IF key = "lastDate" THEN value ELSE json["data"][key]]]

\* dateISOformat of the row of the frame at position k
DateISOformat(k) == isoformat(BodyComposition[k].row["timestamp"].date)

\* the mutant of IsNewDate: every row counts as a new date
IsNewDateAlways(dateISOformat) == TRUE

\* not (dateISOformat in dates)
IsNewDate(dateISOformat) == \A k \in 1..Len(dates) : dates[k] # dateISOformat

\* the mutant of iterrowsNext: line 336 is left out
iterrowsNextKeepsLastDate ==
    /\ pc = "row"
    /\ IF position > Len(BodyComposition)
       THEN /\ pc' = "update"
            /\ UNCHANGED dates
       ELSE IF IsNewDate(DateISOformat(position))
            THEN /\ dates' = Append(dates, DateISOformat(position))
                 /\ pc' = "fetch"
            ELSE /\ pc' = "push"
                 /\ UNCHANGED dates
    /\ UNCHANGED <<settingsFile, jsonProperties, lastDate, BodyComposition, position,
                   dateWeightList, garmin, calls, writes>>
    /\ UNCHANGED fileVars

\* lines 329-336: the next row of the frame; a new date is appended to dates
\* and written to jsonProperties
iterrowsNext ==
    /\ pc = "row"
    /\ IF position > Len(BodyComposition)
       THEN /\ pc' = "update"
            /\ UNCHANGED <<dates, jsonProperties>>
       ELSE IF IsNewDate(DateISOformat(position))
            THEN /\ dates' = Append(dates, DateISOformat(position))
                 /\ jsonProperties' = SetLastDate(jsonProperties, Str(DateISOformat(position)))
                 /\ pc' = "fetch"
            ELSE /\ pc' = "push"
                 /\ UNCHANGED <<dates, jsonProperties>>
    /\ UNCHANGED <<settingsFile, lastDate, BodyComposition, position, dateWeightList, garmin,
                   calls, writes>>
    /\ UNCHANGED fileVars

\* line 338: get_daily_weigh_ins returns; line 339
get_daily_weigh_ins ==
    /\ pc = "fetch"
    /\ LET date == DateISOformat(position)
           deleteOldData == getPropertyValue("data", "deleteOldData", "False") = "True"
       IN  \E old \in IF date \in garmin.known THEN {{}} ELSE OldWeighIns(date) :
              LET account == [weighIns |-> garmin.weighIns \cup old,
                              known |-> garmin.known \cup {date}]
                  daily_weigh_ins == DailyWeighIns(account, date)
              IN  /\ garmin' = account
                  /\ calls' = Append(calls, Call("get", date, 0, FALSE, TRUE))
                  /\ IF deleteOldData /\ daily_weigh_ins # <<>>
                     THEN dateWeightList' = daily_weigh_ins /\ pc' = "delete"
                     ELSE dateWeightList' = <<>> /\ pc' = "push"
    /\ UNCHANGED <<settingsFile, jsonProperties, lastDate, BodyComposition, position, dates,
                   writes>>
    /\ UNCHANGED fileVars

\* line 342: delete_weigh_in returns
delete_weigh_in ==
    /\ pc = "delete"
    /\ LET w == Head(dateWeightList)
       IN  /\ garmin' = [garmin EXCEPT !.weighIns = @ \ {w}]
           /\ calls' = Append(calls, Call("delete", w.date, w.samplePk, w.fresh, TRUE))
    /\ dateWeightList' = Tail(dateWeightList)
    /\ pc' = IF Tail(dateWeightList) = <<>> THEN "push" ELSE "delete"
    /\ UNCHANGED <<settingsFile, jsonProperties, lastDate, BodyComposition, position, dates,
                   writes>>
    /\ UNCHANGED fileVars

\* lines 344-360: add_body_composition returns
add_body_composition ==
    /\ pc = "push"
    /\ LET date == DateISOformat(position)
           samplePk == MaxRemote + position
       IN  /\ garmin' = [garmin EXCEPT !.weighIns =
                            @ \cup {[date |-> date, samplePk |-> samplePk, fresh |-> TRUE]}]
           /\ calls' = Append(calls, Call("add", date, samplePk, TRUE, TRUE))
    /\ position' = position + 1
    /\ pc' = "row"
    /\ UNCHANGED <<settingsFile, jsonProperties, lastDate, BodyComposition, dates,
                   dateWeightList, writes>>
    /\ UNCHANGED fileVars

\* the mutant of clientCallFails: the exception is caught and the script
\* goes on to updatePropertiesFile
clientCallFailsCaught ==
    /\ pc \in {"fetch", "delete", "push"}
    /\ calls' = Append(calls,
                       Call(CASE pc = "fetch" -> "get" [] pc = "delete" -> "delete"
                              [] pc = "push" -> "add",
                            DateISOformat(position), 0, FALSE, FALSE))
    /\ pc' = "update"
    /\ UNCHANGED <<settingsFile, jsonProperties, lastDate, BodyComposition, position, dates,
                   dateWeightList, garmin, writes>>
    /\ UNCHANGED fileVars

\* a call of self.client raises: no handler, the script ends
clientCallFails ==
    /\ pc \in {"fetch", "delete", "push"}
    /\ calls' = Append(calls,
                       Call(CASE pc = "fetch" -> "get" [] pc = "delete" -> "delete"
                              [] pc = "push" -> "add",
                            DateISOformat(position), 0, FALSE, FALSE))
    /\ Raise
    /\ UNCHANGED <<settingsFile, jsonProperties, lastDate, BodyComposition, position, dates,
                   dateWeightList, garmin, writes>>
    /\ UNCHANGED fileVars

\* updatePropertiesFile: json.dump(self.jsonProperties) to the settings file
updatePropertiesFile ==
    /\ pc = "update"
    /\ settingsFile' = jsonProperties
    /\ writes' = writes + 1
    /\ pc' = "done"
    /\ UNCHANGED <<jsonProperties, lastDate, BodyComposition, position, dates, dateWeightList,
                   garmin, calls>>
    /\ UNCHANGED fileVars

\* self.lastDate = self.getPropertyValue('data', 'lastDate', None), of a document
LastDateOf(json) ==
    IF "lastDate" \in DOMAIN json["data"] THEN json["data"]["lastDate"] ELSE None

\* the state after ImportBodyComposition(), bc.loadPropertiesFile() and Timer(),
\* with the script at `at`
Started(json, at) ==
    /\ jsonProperties = json
    /\ lastDate = LastDateOf(json)
    /\ BodyComposition = <<>>
    /\ pc = at
    /\ nFiles = 0
    /\ insertedItems = 0
    /\ firstSeen = {}
    /\ skipped = {}
    /\ lastFile = <<>>
    /\ sameFile = FALSE
    /\ position = 1
    /\ dates = <<>>
    /\ dateWeightList = <<>>
    /\ garmin = UnknownAccount
    /\ calls = <<>>
    /\ writes = 0

\* the script is run again: it starts from the settings file as the last run
\* left it; what the account holds by then is not known
runAgain ==
    /\ pc \in {"done", "aborted"}
    /\ jsonProperties' = settingsFile
    /\ lastDate' = LastDateOf(settingsFile)
    /\ BodyComposition' = <<>>
    /\ pc' = "download"
    /\ nFiles' = 0
    /\ insertedItems' = 0
    /\ firstSeen' = {}
    /\ skipped' = {}
    /\ lastFile' = <<>>
    /\ sameFile' = FALSE
    /\ position' = 1
    /\ dates' = <<>>
    /\ dateWeightList' = <<>>
    /\ garmin' = UnknownAccount
    /\ calls' = <<>>
    /\ writes' = 0
    /\ UNCHANGED settingsFile

Init == settingsFile \in RunSettings /\ Started(settingsFile, "download")

Next ==
    \/ downloadAttachments
    \/ downloadAttachmentsFails
    \/ LoadFile
    \/ loadDataFromWeightFilesFolder
    \/ connectGarmin
    \/ connectGarminFails
    \/ loadDataOnGarminConnect
    \/ iterrowsNext
    \/ get_daily_weigh_ins
    \/ delete_weigh_in
    \/ add_body_composition
    \/ clientCallFails
    \/ updatePropertiesFile
    \/ runAgain

Spec == Init /\ [][Next]_vars

\* the normaliser alone, from line 380 on: the files of the folder, one
\* after the other
InitFiles == settingsFile \in FileSettings /\ Started(settingsFile, "files")

NextFiles == LoadFileNoted

SpecFiles == InitFiles /\ [][NextFiles]_vars

\* the normaliser on a file and on a second file with the same content
NextAgain == LoadFileTracked \/ LoadFileAgain

SpecAgain == InitFiles /\ [][NextAgain]_vars

(***************************************************************************)
(* Properties                                                              *)
(***************************************************************************)
Rows == {BodyComposition[k].row : k \in 1..Len(BodyComposition)}
RowOutput(rowInput) == MappedRows[mapInfo][rowInput].rowOutput
LastFileRows == {lastFile[k] : k \in 1..Len(lastFile)}
IsMandatory(key) ==
    /\ key \in DOMAIN mapInfo
    /\ "mandatory" \in DOMAIN mapInfo[key]
    /\ mapInfo[key]["mandatory"] = "True"
\* no value: absent (None), empty (the NaN of an empty cell, the empty
\* string) or zero
HasNoValue(v) ==
    \/ v.t = "None"
    \/ v.t = "nan"
    \/ v.t = "str" /\ v.s = <<>>
    \/ v.t = "float" /\ v.num = 0
\* the date an ISO string of the model stands for
DateOfISO(s) == CHOOSE d \in Dates : isoformat(d) = s
CallAPI == getPropertyValue("data", "callAPI", "False") = "True"
DeleteOldData == getPropertyValue("data", "deleteOldData", "False") = "True"
OkCalls(op) == {k \in 1..Len(calls) : calls[k].op = op /\ calls[k].ok}
FailedCalls == {k \in 1..Len(calls) : ~calls[k].ok}

\* C1: the BodyComposition frame never holds two records with equal
\* timestamps, whatever files were processed, sorted or filtered or not
C1_UniqueTimestamps ==
    \A j, k \in 1..Len(BodyComposition) :
        j # k => BodyComposition[j].row["timestamp"] # BodyComposition[k].row["timestamp"]

\* the last file lost a row only because its timestamp was in the frame,
\* and the frame holds more than one record
C1_Witness ==
    /\ Len(BodyComposition) >= 2
    /\ "duplicate" \in skipped

\* C2: with a watermark set, every record of the frame has a date that is
\* not earlier than the watermark
C2_WatermarkFilter ==
    Truthy(lastDate) =>
        \A r \in Rows : ~DateLess(r["timestamp"].date, DateOfISO(lastDate.s))

\* the last file lost a row only because it is dated before the watermark,
\* and the frame holds records
C2_Witness ==
    /\ Truthy(lastDate)
    /\ Len(BodyComposition) > 0
    /\ "watermark" \in skipped

\* C3: every record of the frame has a value (not absent, not empty, not
\* zero) for every column the mapping marks mandatory
C3_MandatoryPresent ==
    \A r \in Rows : \A key \in Columns : IsMandatory(key) => ~HasNoValue(r[key])

\* C4: processing a file again, right after it was processed, inserts no
\* record and leaves the frame as it is
C4_Idempotent ==
    [][sameFile' /\ nFiles' = nFiles + 1 =>
          insertedItems' = 0 /\ BodyComposition' = BodyComposition]_vars

\* a file that put two records into the frame has been processed twice
C4_Witness ==
    /\ sameFile
    /\ Len(BodyComposition) >= 2
    /\ \A r \in Rows : \E f \in LastFileRows : RowOutput(f) = r

\* C5: while callAPI is not enabled the run makes no call of the account and
\* the watermark stays as loaded, in memory and in the settings file
C5_NoCallWithoutCallAPI ==
    ~CallAPI =>
        /\ calls = <<>>
        /\ garmin = UnknownAccount
        /\ LastDateOf(jsonProperties) = lastDate
        /\ LastDateOf(settingsFile) = lastDate

\* a run with callAPI disabled and a record of a date later than the
\* watermark went through loadDataOnGarminConnect and updatePropertiesFile
C5_Witness ==
    /\ ~CallAPI
    /\ pc = "done"
    /\ writes = 1
    /\ \E r \in Rows : Str(isoformat(r["timestamp"].date)) # lastDate

\* C6: updatePropertiesFile runs at most once per run, and only after every
\* record was pushed without a failed call; until then, and so after a failed
\* call, the settings file holds the watermark the run started from
C6_WriteOnceAtEnd ==
    /\ writes <= 1
    /\ writes = 1 =>
          /\ pc = "done"
          /\ FailedCalls = {}
          /\ CallAPI => Cardinality(OkCalls("add")) = Len(BodyComposition)
    /\ writes = 0 => LastDateOf(settingsFile) = lastDate
    /\ pc = "aborted" => LastDateOf(settingsFile) = lastDate

\* a push failed after another one succeeded and after the watermark in
\* memory had moved on
C6_Witness ==
    /\ pc = "aborted"
    /\ OkCalls("add") # {}
    /\ \E k \in FailedCalls : calls[k].op = "add"
    /\ LastDateOf(jsonProperties) # lastDate

\* C7 as claimed: the watermark in memory is the one loaded at startup or the
\* date of a record whose push has succeeded
C7_OnlyAfterPush ==
    \/ LastDateOf(jsonProperties) = lastDate
    \/ \E k \in OkCalls("add") : LastDateOf(jsonProperties) = Str(calls[k].date)

\* C7 as amended: the watermark in memory is the one loaded at startup until
\* the loop enters its first date, and from then on the date of the record
\* the loop is at (entered, not yet pushed) or of the record pushed last
C7_EnteredDate ==
    LET k == IF pc \in {"fetch", "delete", "push", "aborted"} THEN position
             ELSE position - 1
    IN  IF dates = <<>> THEN LastDateOf(jsonProperties) = lastDate
        ELSE /\ k \in 1..Len(BodyComposition)
             /\ LastDateOf(jsonProperties) = Str(DateISOformat(k))
             /\ \/ pc \in {"fetch", "delete", "push", "aborted"}
                \/ \E c \in OkCalls("add") : calls[c].date = DateISOformat(k)

\* the watermark in memory has moved to a date no record of which is pushed
C7_Witness ==
    /\ pc = "fetch"
    /\ LastDateOf(jsonProperties) # lastDate
    /\ \A k \in OkCalls("add") : Str(calls[k].date) # LastDateOf(jsonProperties)

\* C8: the frame holds, for every timestamp, the first row in processing
\* order that passed the user filter, the watermark and the mandatory check;
\* a file leaves the records of the frame as they are and adds one record
\* for every row it reports as loaded
C8_FirstRowWins ==
    /\ [](Rows = firstSeen /\ Cardinality(firstSeen) = Len(BodyComposition))
    /\ [][nFiles' = nFiles + 1 =>
            /\ \A k \in 1..Len(BodyComposition) :
                  \E j \in 1..Len(BodyComposition') : BodyComposition'[j] = BodyComposition[k]
            /\ Len(BodyComposition') = Len(BodyComposition) + insertedItems']_vars

\* a second file added a record to a frame whose labels the sort had put out
\* of order, and a row of it lost against a record with other values
C8_Witness ==
    /\ nFiles = 2
    /\ insertedItems > 0
    /\ \E j, k \in 1..Len(BodyComposition) :
          j < k /\ BodyComposition[j].idx > BodyComposition[k].idx
    /\ "conflict" \in skipped

\* C9: a date is fetched at most once and before any record of it is
\* pushed, deletions of a date come before its first push and never hit a
\* weigh-in this run pushed; with deleteOldData every date of the frame is
\* fetched once and cleared of its old weigh-ins before its records are
\* pushed; without deleteOldData nothing is deleted
C9_DeleteBeforePush ==
    /\ \A j, k \in OkCalls("get") : calls[j].date = calls[k].date => j = k
    /\ \A k \in OkCalls("add") :
          \E j \in OkCalls("get") : j < k /\ calls[j].date = calls[k].date
    /\ \A k \in 1..Len(calls) :
          calls[k].op \in {"get", "delete"} =>
             /\ ~calls[k].fresh
             /\ \A j \in OkCalls("add") : calls[j].date = calls[k].date => k < j
    /\ \A j, k \in OkCalls("delete") :
          calls[j].date = calls[k].date /\ calls[j].samplePk = calls[k].samplePk => j = k
    /\ ~DeleteOldData => \A k \in 1..Len(calls) : calls[k].op # "delete"
    /\ CallAPI /\ DeleteOldData =>
          /\ \A k \in OkCalls("add") :
                \A w \in garmin.weighIns : w.date = calls[k].date => w.fresh
          /\ pc \in {"update", "done"} =>
                \A r \in Rows :
                   \E k \in OkCalls("get") : calls[k].date = isoformat(r["timestamp"].date)

\* a run deleted the old weigh-in of a date and pushed two records of it
C9_Witness ==
    /\ pc = "done"
    /\ DeleteOldData
    /\ \E d \in OkCalls("delete") :
          \E j, k \in OkCalls("add") :
             j # k /\ calls[j].date = calls[d].date /\ calls[k].date = calls[d].date

\* the record of the frame with the latest timestamp
Latest == CHOOSE r \in Rows : \A q \in Rows : ~TimestampLess(r["timestamp"], q["timestamp"])

\* C10: a run with callAPI that pushed all records of its frame writes the
\* date of the record with the latest timestamp as the watermark, which is not
\* earlier than the watermark it loaded; the watermark of the settings file
\* never moves back
C10_WatermarkMonotone ==
    /\ [](pc = "done" /\ writes = 1 /\ CallAPI =>
            /\ LastDateOf(settingsFile) = Str(isoformat(Latest["timestamp"].date))
            /\ Truthy(lastDate) =>
                  ~DateLess(DateOfISO(LastDateOf(settingsFile).s), DateOfISO(lastDate.s)))
    /\ [][Truthy(LastDateOf(settingsFile)) =>
            /\ Truthy(LastDateOf(settingsFile'))
            /\ ~DateLess(DateOfISO(LastDateOf(settingsFile').s),
                         DateOfISO(LastDateOf(settingsFile).s))]_vars

\* a run moved the watermark of the settings file to a later date, from a
\* frame with records of two dates
C10_Witness ==
    /\ pc = "done"
    /\ writes = 1
    /\ CallAPI
    /\ Truthy(lastDate)
    /\ LastDateOf(settingsFile) # lastDate
    /\ \E r, q \in Rows : r["timestamp"].date # q["timestamp"].date
====
